---- MODULE Spec2Model ----
(***************************************************************************)
(* A model of the rule compiler of caocaocc/rule-set: the rule parser,     *)
(* the inclusion resolver, the suffix deduplication and the assembly of    *)
(* the per-file rule set (ListInfo in src/main.go, driven by main).        *)
(*                                                                         *)
(* Text is modelled structurally.  A string without ':' or '@' is the      *)
(* sequence of its '.'-separated labels ("a.b.com" is <<"a","b","com">>,   *)
(* the empty string is <<"">>), so that strings.Split(v, ".") is the       *)
(* identity on the representation.  A rule token is the sequence of its    *)
(* ':'-separated strings, so that strings.Split(token, ":") is the         *)
(* identity too.  Labels, tags and file names are atomic strings, some     *)
(* with blanks around them or in upper case; the case and whitespace       *)
(* functions are tables over the atoms the inputs use.                     *)
(***************************************************************************)
EXTENDS Integers, Sequences, FiniteSets, TLC

VARIABLES
    pc,           \* where main is: "walk", "flatten", "proto", "plain", "done",
                  \* "exit1" after os.Exit(1), "panic" after a run-time panic
    data,         \* the data directory: file name -> the file's lines
    excludeAttrs, \* the excludeattrs flag: its entries, each split at '@'
    todo,         \* the paths filepath.Walk has not visited yet
    listInfoMap,  \* ListInfoMap: file name -> ListInfo
    status,       \* resolver state of each file of the registry
    stack,        \* the files being resolved, innermost last
    failure,      \* the error main printed before os.Exit(1), or "none"
    written,      \* the output artifacts written so far
    token,        \* the parser alone: the rule token it is given
    parsed        \* the parser alone: what parseRule made of the token

vars == <<pc, data, excludeAttrs, todo, listInfoMap, status, stack, failure,
          written, token, parsed>>

\* The largest number of lines of one input file.
MaxLines == 3

\* The largest number of ':'-separated parts of a rule token under test.
MaxTokenParts == 3

-----------------------------------------------------------------------------
(* Strings *)

\* strings.ToLower on one atom.
ToLowerAtom(a) ==
    CASE a = "FULL" -> "full"
      [] a = "Domain" -> "domain"
      [] a = "KeyWord" -> "keyword"
      [] a = "REGEXP" -> "regexp"
      [] a = "COM" -> "com"
      [] a = "B" -> "b"
      [] a = "CN" -> "cn"
      [] a = "Ads" -> "ads"
      [] OTHER -> a

\* strings.ToUpper on one atom (file names).
ToUpperAtom(a) ==
    CASE a = "a" -> "A"
      [] a = "b" -> "B"
      [] a = "c" -> "C"
      [] a = "x" -> "X"
      [] OTHER -> a

\* strings.TrimSpace on one atom.
TrimSpaceAtom(a) ==
    CASE a = "b " -> "b"
      [] a = "c " -> "c"
      [] a = "x " -> "x"
      [] a = "a " -> "a"
      [] a = " cn" -> "cn"
      [] a = "cn " -> "cn"
      [] a = " " -> ""
      [] OTHER -> a

\* strings.ToLower on a string given as its labels.
ToLower(s) == [i \in 1..Len(s) |-> ToLowerAtom(s[i])]

\* The number of '.'-separated labels: len(strings.Split(v, ".")).
LabelCount(v) == Len(v)

\* The empty string.
EmptyString == <<"">>

-----------------------------------------------------------------------------
(* router.Domain and ListInfo *)

\* router.Domain_Type; Domain_Plain is the zero value of the enumeration.
Domain_Plain == "Plain"
Domain_Regex == "Regex"
Domain_RootDomain == "RootDomain"
Domain_Full == "Full"

\* A router.Domain: Attribute is the sequence of the attribute keys.
Domain(t, v, attrs) == [Type |-> t, Value |-> v, Attribute |-> attrs]

\* A map with no key.
EmptyMap == <<>>

\* append(m[k], xs...) on a map of slices.
MapAppend(m, k, xs) ==
    IF k \in DOMAIN m THEN [m EXCEPT ![k] = @ \o xs] ELSE (k :> xs) @@ m

NewListInfo ==
    [Name |-> "",
     HasInclusion |-> FALSE,
     InclusionAttributeMap |-> EmptyMap,
     FullTypeList |-> <<>>,
     KeywordTypeList |-> <<>>,
     RegexpTypeList |-> <<>>,
     AttributeRuleUniqueList |-> <<>>,
     DomainTypeList |-> <<>>,
     DomainTypeUniqueList |-> <<>>,
     AttributeRuleListMap |-> EmptyMap,
     GeoSite |-> <<>>]

-----------------------------------------------------------------------------
(* The rule parser *)

\* The attributes one include line adds for filename: "@" + attr for every
\* non-empty trimmed, lower-cased segment after the first.
RECURSIVE InclusionAttrs(_)
InclusionAttrs(segs) ==
    IF segs = <<>> THEN <<>>
    ELSE LET attr == ToLowerAtom(TrimSpaceAtom(Head(segs)))
         IN  IF attr # "" THEN <<attr>> \o InclusionAttrs(Tail(segs))
             ELSE InclusionAttrs(Tail(segs))

\* The placeholder attribute of an inclusion without attributes.  A wanted
\* attribute "@cn" is modelled by its key "cn"; no key is "@".
Placeholder == "@"

\* parseInclusion: segs is strings.Split(inclusionVal, "@").
parseInclusion(l, segs) ==
    LET filename == ToUpperAtom(TrimSpaceAtom(segs[1]))
        l1 == [l EXCEPT !.HasInclusion = TRUE]
        attrs == InclusionAttrs(Tail(segs))
    IN  IF Len(segs) = 1
        THEN [l1 EXCEPT !.InclusionAttributeMap = MapAppend(@, filename, <<Placeholder>>)]
        ELSE IF attrs = <<>> THEN l1
        ELSE [l1 EXCEPT !.InclusionAttributeMap = MapAppend(@, filename, attrs)]

\* parseTypeRule: kv is strings.Split(domain, ":").  A token of three or more
\* parts matches no case of the switch: the rule keeps its zero value.
parseTypeRule(kv) ==
    IF Len(kv) = 1
    THEN [err |-> "", Type |-> Domain_RootDomain, Value |-> ToLower(kv[1])]
    ELSE IF Len(kv) = 2
    THEN LET ruleType == ToLower(kv[1])
             ruleVal == kv[2]
         IN  CASE ruleType = <<"full">> ->
                    [err |-> "", Type |-> Domain_Full, Value |-> ToLower(ruleVal)]
               [] ruleType = <<"domain">> ->
                    [err |-> "", Type |-> Domain_RootDomain, Value |-> ToLower(ruleVal)]
               [] ruleType = <<"keyword">> ->
                    [err |-> "", Type |-> Domain_Plain, Value |-> ToLower(ruleVal)]
               [] ruleType = <<"regexp">> ->
                    [err |-> "", Type |-> Domain_Regex, Value |-> ruleVal]
               [] OTHER ->
                    [err |-> "unknown domain type", Type |-> Domain_Plain,
                     Value |-> ToLower(ruleVal)]
    ELSE [err |-> "", Type |-> Domain_Plain, Value |-> EmptyString]

\* An attribute token is [at, name]: the text "@" + name when at, name
\* otherwise (name does not start with '@').  parseAttribute fails unless the
\* token starts with '@'.
parseAttribute(attr) ==
    IF ~attr.at THEN [err |-> "invalid attribute", Key |-> ""]
    ELSE [err |-> "", Key |-> ToLowerAtom(attr.name)]

\* The loop of parseRule over parts[1:]: the keys, or the first error.
RECURSIVE parseAttributes(_)
parseAttributes(toks) ==
    IF toks = <<>> THEN [err |-> "", keys |-> <<>>]
    ELSE IF ~Head(toks).at /\ Head(toks).name = "" THEN parseAttributes(Tail(toks))
    ELSE LET a == parseAttribute(Head(toks))
             rest == parseAttributes(Tail(toks))
         IN  IF a.err # "" THEN [err |-> a.err, keys |-> <<>>]
             ELSE IF rest.err # "" THEN rest
             ELSE [err |-> "", keys |-> <<a.Key>> \o rest.keys]

\* classifyRule
classifyRule(l, rule) ==
    IF Len(rule.Attribute) > 0
    THEN [l EXCEPT !.AttributeRuleUniqueList = Append(@, rule),
                   !.AttributeRuleListMap = MapAppend(@, rule.Attribute, <<rule>>)]
    ELSE CASE rule.Type = Domain_Full -> [l EXCEPT !.FullTypeList = Append(@, rule)]
           [] rule.Type = Domain_RootDomain -> [l EXCEPT !.DomainTypeList = Append(@, rule)]
           [] rule.Type = Domain_Plain -> [l EXCEPT !.KeywordTypeList = Append(@, rule)]
           [] rule.Type = Domain_Regex -> [l EXCEPT !.RegexpTypeList = Append(@, rule)]

\* A line is an include line [inc |-> TRUE, segs], the text "include:" +
\* segs joined by "@", or a rule line [inc |-> FALSE, tok, attrs], the token
\* and the attribute tokens joined by " ".
\* parseRule followed by classifyRule: one iteration of ProcessList's loop.
parseRule(l, line) ==
    IF line.inc THEN [err |-> "", l |-> parseInclusion(l, line.segs)]
    ELSE IF line.tok = <<EmptyString>> THEN [err |-> "empty rule", l |-> l]
    ELSE LET t == parseTypeRule(line.tok)
             a == parseAttributes(line.attrs)
         IN  IF t.err # "" THEN [err |-> t.err, l |-> l]
             ELSE IF a.err # "" THEN [err |-> a.err, l |-> l]
             ELSE [err |-> "", l |-> classifyRule(l, Domain(t.Type, t.Value, a.keys))]

\* ProcessList: the lines in order, stopping at the first error.
RECURSIVE ProcessList(_, _)
ProcessList(l, lines) ==
    IF lines = <<>> THEN [err |-> "", l |-> l]
    ELSE LET r == parseRule(l, Head(lines))
         IN  IF r.err # "" THEN r ELSE ProcessList(r.l, Tail(lines))

-----------------------------------------------------------------------------
(* The domain trie *)

\* a is b or a dot-suffix of b: the labels of a end the labels of b.
IsDotSuffix(a, b) ==
    /\ Len(a) <= Len(b)
    /\ SubSeq(b, Len(b) - Len(a) + 1, Len(b)) = a

\* The trie is the set of its terminal paths.  A value is accepted when no
\* terminal node lies on its own path from the last label to the first.
TrieAccepts(trie, value) == ~\E t \in trie : IsDotSuffix(t, value)

\* Insert of an accepted value: its node becomes terminal and the nodes
\* below it are pruned.
TrieInsert(trie, value) == {t \in trie : ~IsDotSuffix(value, t)} \cup {value}

-----------------------------------------------------------------------------
(* Flatten *)

\* Every order in which a range loop over a map may visit the keys S.
RECURSIVE Orders(_)
Orders(S) ==
    IF S = {} THEN {<<>>}
    ELSE UNION {{<<x>> \o o : o \in Orders(S \ {x})} : x \in S}

\* The values of map m at k, a missing key being the nil slice.
MapGet(m, k) == IF k \in DOMAIN m THEN m[k] ELSE <<>>

\* The case "@" with the keyword rules forgotten.
IncludeAllButKeywords(l, includedList) ==
    [l EXCEPT
        !.FullTypeList = @ \o includedList.FullTypeList,
        !.DomainTypeList = @ \o includedList.DomainTypeList,
        !.RegexpTypeList = @ \o includedList.RegexpTypeList,
        !.AttributeRuleUniqueList = @ \o includedList.AttributeRuleUniqueList,
        !.AttributeRuleListMap =
            [attr \in DOMAIN @ \cup DOMAIN includedList.AttributeRuleListMap |->
                MapGet(@, attr) \o MapGet(includedList.AttributeRuleListMap, attr)]]

\* The case "@" of Flatten: everything of the included list.
IncludeAll(l, includedList) ==
    [l EXCEPT
        !.FullTypeList = @ \o includedList.FullTypeList,
        !.DomainTypeList = @ \o includedList.DomainTypeList,
        !.KeywordTypeList = @ \o includedList.KeywordTypeList,
        !.RegexpTypeList = @ \o includedList.RegexpTypeList,
        !.AttributeRuleUniqueList = @ \o includedList.AttributeRuleUniqueList,
        !.AttributeRuleListMap =
            [attr \in DOMAIN @ \cup DOMAIN includedList.AttributeRuleListMap |->
                MapGet(@, attr) \o MapGet(includedList.AttributeRuleListMap, attr)]]

\* strings.Contains(string(attr)+"@", string(attrWanted)+"@"): attr is the
\* concatenation of "@" + key over the rule's keys, attrWanted is "@" + key,
\* and no key holds an '@'.
AttrMatches(attr, attrWanted) == \E i \in 1..Len(attr) : attr[i] = attrWanted

\* The default case of Flatten, the matching keys visited in the order keys.
RECURSIVE IncludeWanted(_, _, _)
IncludeWanted(l, includedList, keys) ==
    IF keys = <<>> THEN l
    ELSE LET domainList == includedList.AttributeRuleListMap[Head(keys)]
             l1 == [l EXCEPT
                     !.AttributeRuleListMap = MapAppend(@, Head(keys), domainList),
                     !.AttributeRuleUniqueList = @ \o domainList]
         IN  IncludeWanted(l1, includedList, Tail(keys))

\* The loop over the attributes wanted of one included file: the outcomes,
\* one for every order the inner map may be visited in.
RECURSIVE IncludeAttrs(_, _, _)
IncludeAttrs(l, includedList, attrs) ==
    IF attrs = <<>> THEN {l}
    ELSE LET step ==
                IF Head(attrs) = Placeholder
                THEN {IncludeAll(l, includedList)}
                ELSE {IncludeWanted(l, includedList, keys) :
                        keys \in Orders({attr \in DOMAIN includedList.AttributeRuleListMap :
                                            AttrMatches(attr, Head(attrs))})}
         IN  UNION {IncludeAttrs(l1, includedList, Tail(attrs)) : l1 \in step}

\* The loop over InclusionAttributeMap, the file names visited in the order
\* names.
RECURSIVE IncludeFiles(_, _, _)
IncludeFiles(l, lm, names) ==
    IF names = <<>> THEN {l}
    ELSE UNION {IncludeFiles(l1, lm, Tail(names)) :
                    l1 \in IncludeAttrs(l, lm[Head(names)],
                                        l.InclusionAttributeMap[Head(names)])}

\* x put into the sorted list s at any place the comparison allows.
SortedInsert(x, s) ==
    {SubSeq(s, 1, k) \o <<x>> \o SubSeq(s, k + 1, Len(s)) :
        k \in {j \in 0..Len(s) :
                /\ \A i \in 1..j : LabelCount(s[i].Value) <= LabelCount(x.Value)
                /\ \A i \in (j + 1)..Len(s) : LabelCount(x.Value) <= LabelCount(s[i].Value)}}

\* The list left in the order it has.
Unsorted(list) == {list}

\* sort.Slice by label count: it is not stable, so every arrangement in
\* ascending label count is an outcome.
RECURSIVE SortByLabelCount(_)
SortByLabelCount(list) ==
    IF list = <<>> THEN {<<>>}
    ELSE UNION {SortedInsert(Head(list), s) : s \in SortByLabelCount(Tail(list))}

\* The loop with its test inverted: the values the trie did not accept.
RECURSIVE UniqueDomainsRejected(_, _)
UniqueDomainsRejected(trie, list) ==
    IF list = <<>> THEN <<>>
    ELSE IF TrieAccepts(trie, Head(list).Value)
    THEN UniqueDomainsRejected(TrieInsert(trie, Head(list).Value), Tail(list))
    ELSE <<Head(list)>> \o UniqueDomainsRejected(trie, Tail(list))

\* The loop over the sorted DomainTypeList: the values the trie accepted.
RECURSIVE UniqueDomains(_, _)
UniqueDomains(trie, list) ==
    IF list = <<>> THEN <<>>
    ELSE IF TrieAccepts(trie, Head(list).Value)
    THEN <<Head(list)>> \o UniqueDomains(TrieInsert(trie, Head(list).Value), Tail(list))
    ELSE UniqueDomains(trie, Tail(list))

\* Flatten dereferences (*lm)[filename] without a test: it panics on a name
\* the map does not hold.
FlattenPanics(l, lm) ==
    l.HasInclusion /\ \E filename \in DOMAIN l.InclusionAttributeMap : filename \notin DOMAIN lm

\* Flatten: the outcomes over the map orders and the sort.
Flatten(l, lm) ==
    LET merged == IF l.HasInclusion
                  THEN UNION {IncludeFiles(l, lm, names) :
                                names \in Orders(DOMAIN l.InclusionAttributeMap)}
                  ELSE {l}
    IN  UNION {{[l1 EXCEPT !.DomainTypeList = sorted,
                           !.DomainTypeUniqueList = @ \o UniqueDomains({}, sorted)] :
                    sorted \in SortByLabelCount(l1.DomainTypeList)} : l1 \in merged}

-----------------------------------------------------------------------------
(* ToGeoSite *)

\* The inner loop looking at the first attribute only.
ifKeepFirstAttribute(attrs, excludeAttrsMap) ==
    attrs = <<>> \/ Head(attrs) \notin excludeAttrsMap

\* The inner loop of ToGeoSite: no attribute of the rule is excluded.
RECURSIVE ifKeep(_, _)
ifKeep(attrs, excludeAttrsMap) ==
    IF attrs = <<>> THEN TRUE
    ELSE IF Head(attrs) \in excludeAttrsMap THEN FALSE
    ELSE ifKeep(Tail(attrs), excludeAttrsMap)

\* One pass of ToGeoSite over AttributeRuleUniqueList for one rule type.
RECURSIVE AttributeRulesOfType(_, _, _, _)
AttributeRulesOfType(list, type, name, exclude) ==
    IF list = <<>> THEN <<>>
    ELSE LET domain == Head(list)
             rest == AttributeRulesOfType(Tail(list), type, name, exclude)
         IN  IF domain.Type # type THEN rest
             ELSE IF name \in DOMAIN exclude
             THEN IF ifKeep(domain.Attribute, exclude[name]) THEN <<domain>> \o rest ELSE rest
             ELSE <<domain>> \o rest

\* The untagged rules first, of both types, then the tagged ones.
GeoSiteDomainsUntaggedFirst(l, exclude) ==
    l.FullTypeList
        \o l.DomainTypeUniqueList
        \o AttributeRulesOfType(l.AttributeRuleUniqueList, Domain_Full, l.Name, exclude)
        \o AttributeRulesOfType(l.AttributeRuleUniqueList, Domain_RootDomain, l.Name, exclude)

\* The rules ToGeoSite collects, in its order.
GeoSiteDomains(l, exclude) ==
    l.FullTypeList
        \o AttributeRulesOfType(l.AttributeRuleUniqueList, Domain_Full, l.Name, exclude)
        \o l.DomainTypeUniqueList
        \o AttributeRulesOfType(l.AttributeRuleUniqueList, Domain_RootDomain, l.Name, exclude)

ToGeoSite(l, exclude) ==
    [l EXCEPT !.GeoSite = <<[CountryCode |-> l.Name, Domain |-> GeoSiteDomains(l, exclude)]>>]

\* main's split of the excludeattrs flag: every entry is the file name and
\* the attributes, strings.Split(entry, "@"); a later entry of the same file
\* replaces an earlier one.
RECURSIVE ExcludeAttrsInFile(_)
ExcludeAttrsInFile(entries) ==
    IF entries = <<>> THEN EmptyMap
    ELSE LET e == entries[Len(entries)]
             filename == ToUpperAtom(TrimSpaceAtom(e[1]))
             attrs == {TrimSpaceAtom(e[i]) : i \in 2..Len(e)} \ {""}
             before == ExcludeAttrsInFile(SubSeq(entries, 1, Len(entries) - 1))
         IN  (filename :> attrs) @@ before

-----------------------------------------------------------------------------
(* main: the walk over the data directory *)

\* The files of the data directory, in the lexical order of filepath.Walk.
Paths == <<"a", "b", "c">>

\* Marshal: a new ListInfo named after the file, filled by ProcessList.
Marshal(path, lines) ==
    ProcessList([NewListInfo EXCEPT !.Name = ToUpperAtom(path)], lines)

\* The walk going on after a failed Marshal.
AfterMarshalIgnoringError(err, rest) ==
    IF rest = <<>> THEN "flatten" ELSE "walk"

\* What main does with the error of one step of the walk: a failed Marshal
\* ends the walk, and main prints the error and exits.
AfterMarshal(err, rest) ==
    IF err # "" THEN "exit1"
    ELSE IF rest = <<>> THEN "flatten" ELSE "walk"

\* One file of the walk.
MarshalFile ==
    /\ pc = "walk"
    /\ todo # <<>>
    /\ LET path == Head(todo)
           r == Marshal(path, data[path])
       IN  /\ pc' = AfterMarshal(r.err, Tail(todo))
           /\ todo' = Tail(todo)
           /\ failure' = IF r.err # "" THEN r.err ELSE failure
           /\ IF r.err # ""
              THEN UNCHANGED <<listInfoMap, status>>
              ELSE /\ listInfoMap' = (r.l.Name :> r.l) @@ listInfoMap
                   /\ status' = (r.l.Name :> "Unresolved") @@ status
    /\ UNCHANGED <<data, excludeAttrs, stack, written, token, parsed>>

-----------------------------------------------------------------------------
(* FlattenAndGenUniqueDomainList: the inclusion resolver *)

\* The files the directives of l name.
Targets(l) == DOMAIN l.InclusionAttributeMap

\* Resolution starts on a file not yet resolved.
BeginResolve ==
    /\ pc = "flatten"
    /\ stack = <<>>
    /\ \E name \in DOMAIN listInfoMap :
        /\ status[name] = "Unresolved"
        /\ status' = [status EXCEPT ![name] = "Resolving"]
        /\ stack' = <<name>>
    /\ UNCHANGED <<pc, data, excludeAttrs, todo, listInfoMap, failure, written,
                   token, parsed>>

\* The resolver taking a file being resolved for a resolved one.
DirectiveOutcomeNoCycleTest(target) ==
    IF target \notin DOMAIN listInfoMap THEN "unresolved inclusion"
    ELSE IF status[target] = "Unresolved" THEN "resolve"
    ELSE "resolved"

\* What the resolver does with one directive of the file being resolved.
DirectiveOutcome(target) ==
    IF target \notin DOMAIN listInfoMap THEN "unresolved inclusion"
    ELSE IF status[target] = "Resolving" THEN "cyclic inclusion"
    ELSE IF status[target] = "Unresolved" THEN "resolve"
    ELSE "resolved"

\* A directive whose target is not resolved yet: the target is resolved
\* first, or the resolution fails.
ResolveInclusion ==
    /\ pc = "flatten"
    /\ stack # <<>>
    /\ \E target \in Targets(listInfoMap[stack[Len(stack)]]) :
        LET outcome == DirectiveOutcome(target)
        IN  /\ outcome # "resolved"
            /\ IF outcome = "resolve"
               THEN /\ status' = [status EXCEPT ![target] = "Resolving"]
                    /\ stack' = Append(stack, target)
                    /\ UNCHANGED <<pc, failure>>
               ELSE /\ pc' = "exit1"
                    /\ failure' = outcome
                    /\ UNCHANGED <<status, stack>>
    /\ UNCHANGED <<data, excludeAttrs, todo, listInfoMap, written, token, parsed>>

\* Every directive of the file being resolved has a resolved target: the
\* file is flattened, once.
FlattenFile ==
    /\ pc = "flatten"
    /\ stack # <<>>
    /\ LET name == stack[Len(stack)]
           l == listInfoMap[name]
       IN  /\ \A target \in Targets(l) : DirectiveOutcome(target) = "resolved"
           /\ IF FlattenPanics(l, listInfoMap)
              THEN /\ pc' = "panic"
                   /\ failure' = "nil pointer dereference"
                   /\ UNCHANGED <<listInfoMap, status, stack>>
              ELSE /\ \E flat \in Flatten(l, listInfoMap) :
                        listInfoMap' = [listInfoMap EXCEPT ![name] = flat]
                   /\ status' = [status EXCEPT ![name] = "Resolved"]
                   /\ stack' = SubSeq(stack, 1, Len(stack) - 1)
                   /\ UNCHANGED <<pc, failure>>
    /\ UNCHANGED <<data, excludeAttrs, todo, written, token, parsed>>

\* Every file is resolved: main goes on.
ResolveDone ==
    /\ pc = "flatten"
    /\ stack = <<>>
    /\ \A name \in DOMAIN listInfoMap : status[name] = "Resolved"
    /\ pc' = "proto"
    /\ UNCHANGED <<data, excludeAttrs, todo, listInfoMap, status, stack, failure,
                   written, token, parsed>>

-----------------------------------------------------------------------------
(* main: the outputs *)

\* ToProto and the dat file: every list is converted by ToGeoSite.
GenerateDat ==
    /\ pc = "proto"
    /\ listInfoMap' = [name \in DOMAIN listInfoMap |->
                        ToGeoSite(listInfoMap[name], ExcludeAttrsInFile(excludeAttrs))]
    /\ written' = written \cup {"geosite.dat"}
    /\ pc' = "plain"
    /\ UNCHANGED <<data, excludeAttrs, todo, status, stack, failure, token, parsed>>

\* The plaintext lists of the exported files.
GeneratePlain ==
    /\ pc = "plain"
    /\ written' = written \cup DOMAIN listInfoMap
    /\ pc' = "done"
    /\ UNCHANGED <<data, excludeAttrs, todo, listInfoMap, status, stack, failure,
                   token, parsed>>

Next ==
    \/ MarshalFile
    \/ BeginResolve
    \/ ResolveInclusion
    \/ FlattenFile
    \/ ResolveDone
    \/ GenerateDat
    \/ GeneratePlain

-----------------------------------------------------------------------------
(* Inputs *)

Inc(segs) == [inc |-> TRUE, segs |-> segs]
Rule(tok, attrs) == [inc |-> FALSE, tok |-> tok, attrs |-> attrs]
At(name) == [at |-> TRUE, name |-> name]

\* The selections of at most n lines of a menu, in the menu's order.
RECURSIVE Bodies(_, _)
Bodies(menu, n) ==
    IF menu = <<>> \/ n = 0 THEN {<<>>}
    ELSE Bodies(Tail(menu), n)
            \cup {<<Head(menu)>> \o b : b \in Bodies(Tail(menu), n - 1)}

\* The state main starts the walk in, for the directory d and the flag e.
Start(d, e) ==
    /\ data = d
    /\ excludeAttrs = e
    /\ pc = "walk"
    /\ todo = Paths
    /\ listInfoMap = EmptyMap
    /\ status = EmptyMap
    /\ stack = <<>>
    /\ failure = "none"
    /\ written = {}
    /\ token = <<>>
    /\ parsed = <<>>

\* The directories whose files are selections of the lines of a menu.
Directories(menu) ==
    {d \in [{"a", "b", "c"} -> UNION {Bodies(menu[f], MaxLines) : f \in {"a", "b", "c"}}] :
        \A f \in {"a", "b", "c"} : d[f] \in Bodies(menu[f], MaxLines)}

\* Inclusion: chains, cycles, missing targets and lines that do not parse.
MenuInclude ==
    [a |-> <<Inc(<<"b">>), Inc(<<"a">>), Inc(<<"x ", "">>),
             Rule(<<<<"FULL">>, <<"a", "COM">>>>, <<>>)>>,
     b |-> <<Inc(<<"c ">>), Inc(<<"a">>), Rule(<<<<"keyword">>, <<"k">>>>, <<>>),
             Rule(<<<<"b", "com">>>>, <<[at |-> FALSE, name |-> "cn"]>>)>>,
     c |-> <<Inc(<<"a">>), Inc(<<"x">>), Rule(<<<<"regexp">>, <<"R">>>>, <<>>),
             Rule(<<<<"c", "com">>>>, <<At("cn")>>)>>]

Init == \E d \in Directories(MenuInclude) : Start(d, <<>>)

Spec == Init /\ [][Next]_vars

\* main is one sequential program: it keeps running until it exits.
FairSpec == Init /\ [][Next]_vars /\ WF_vars(Next)

\* Unfiltered inclusion to depth two, with rules of every kind.
MenuChain ==
    [a |-> <<Inc(<<"b">>), Inc(<<"c">>), Rule(<<<<"full">>, <<"a", "com">>>>, <<>>),
             Rule(<<<<"d", "com">>>>, <<>>)>>,
     b |-> <<Inc(<<"c">>), Rule(<<<<"keyword">>, <<"k">>>>, <<>>),
             Rule(<<<<"b", "com">>>>, <<At("ads")>>),
             Rule(<<<<"x", "d", "com">>>>, <<>>)>>,
     c |-> <<Rule(<<<<"regexp">>, <<"R">>>>, <<>>), Rule(<<<<"c", "com">>>>, <<>>),
             Rule(<<<<"full">>, <<"f", "com">>>>, <<At("cn")>>),
             Rule(<<<<"full">>, <<"g", "com">>>>, <<>>)>>]

InitChain == \E d \in Directories(MenuChain) : Start(d, <<>>)

SpecChain == InitChain /\ [][Next]_vars

\* Suffix rules that cover one another, within a file and across includes.
MenuDedup ==
    [a |-> <<Rule(<<<<"a", "b", "com">>>>, <<>>), Rule(<<<<"b", "com">>>>, <<>>),
             Inc(<<"b">>), Inc(<<"c">>)>>,
     b |-> <<Rule(<<<<"x", "a", "b", "com">>>>, <<>>), Rule(<<<<"c", "com">>>>, <<>>),
             Inc(<<"c">>), Rule(<<<<"domain">>, <<"B", "COM">>>>, <<>>)>>,
     c |-> <<Rule(<<<<"a", "c", "com">>>>, <<>>), Rule(<<<<"com">>>>, <<>>),
             Rule(<<<<"x", "b", "com">>>>, <<>>), Rule(<<<<"b", "com">>>>, <<At("cn")>>)>>]

InitDedup == \E d \in Directories(MenuDedup) : Start(d, <<>>)

SpecDedup == InitDedup /\ [][Next]_vars

\* Filtered inclusion: filters of one and of two tags, rules of one and of
\* two tags.
MenuFilter ==
    [a |-> <<Inc(<<"b ", "cn">>), Inc(<<"b ", "cn ", "Ads">>), Inc(<<"c ", "ads">>),
             Rule(<<<<"full">>, <<"a", "com">>>>, <<At("cn")>>)>>,
     b |-> <<Rule(<<<<"full">>, <<"h", "com">>>>, <<At("cn")>>),
             Rule(<<<<"d", "com">>>>, <<At("CN"), At("ads")>>),
             Rule(<<<<"u", "com">>>>, <<>>),
             Inc(<<"c", "ads">>)>>,
     c |-> <<Rule(<<<<"g", "com">>>>, <<At("ads")>>),
             Rule(<<<<"full">>, <<"f", "com">>>>, <<At("ads"), At("cn")>>),
             Rule(<<<<"keyword">>, <<"k">>>>, <<>>),
             Rule(<<<<"e", "com">>>>, <<At("cn")>>)>>]

InitFilter == \E d \in Directories(MenuFilter) : Start(d, <<>>)

SpecFilter == InitFilter /\ [][Next]_vars

\* Assembly: rules of the four kinds, tagged and not, and the excludeattrs
\* flag.
MenuAssemble ==
    [a |-> <<Inc(<<"b">>), Inc(<<"c">>),
             Rule(<<<<"full">>, <<"h", "com">>>>, <<At("ads")>>),
             Rule(<<<<"d", "com">>>>, <<At("cn"), At("ads")>>)>>,
     b |-> <<Rule(<<<<"full">>, <<"e", "com">>>>, <<>>),
             Rule(<<<<"x", "d", "com">>>>, <<At("cn")>>),
             Rule(<<<<"regexp">>, <<"R">>>>, <<>>),
             Rule(<<<<"b", "com">>>>, <<>>)>>,
     c |-> <<Rule(<<<<"a", "b", "com">>>>, <<>>),
             Rule(<<<<"full">>, <<"f", "com">>>>, <<At("cn")>>),
             Rule(<<<<"keyword">>, <<"k">>>>, <<>>)>>]

\* Values of the excludeattrs flag, every entry split at '@'.
ExcludeFlags ==
    {<<>>,
     <<<<"a", "ads">>>>,
     <<<<"a ", " ", "cn">>, <<"c", "ads">>>>,
     <<<<"b", "cn">>>>,
     <<<<"a">>, <<"c", "cn">>>>}

InitAssemble ==
    \E d \in Directories(MenuAssemble) : \E e \in ExcludeFlags : Start(d, e)

SpecAssemble == InitAssemble /\ [][Next]_vars

\* Directives that meet: two filters on one target that match the same
\* rule, and a file reached along two paths of unfiltered includes.
MenuMeet ==
    [a |-> <<Inc(<<"b ", "cn">>), Inc(<<"b ", "ads">>), Inc(<<"b">>), Inc(<<"c">>)>>,
     b |-> <<Inc(<<"c">>), Rule(<<<<"d", "com">>>>, <<At("cn"), At("ads")>>),
             Rule(<<<<"full">>, <<"h", "com">>>>, <<At("cn")>>)>>,
     c |-> <<Rule(<<<<"full">>, <<"f", "com">>>>, <<At("ads")>>),
             Rule(<<<<"g", "com">>>>, <<>>),
             Rule(<<<<"full">>, <<"f", "com">>>>, <<At("ads")>>)>>]

InitMeet == \E d \in Directories(MenuMeet) : Start(d, <<>>)

SpecMeet == InitMeet /\ [][Next]_vars

\* The parser on one rule token.
TokenParts ==
    {<<"full">>, <<"FULL">>, <<"Domain">>, <<"KeyWord">>, <<"regexp">>, <<"bogus">>,
     <<"">>, <<"a", "COM">>, <<"R">>}

RECURSIVE Tokens(_)
Tokens(n) ==
    IF n = 0 THEN {<<>>}
    ELSE Tokens(n - 1) \cup {Append(t, p) : t \in Tokens(n - 1), p \in TokenParts}

InitParse ==
    /\ token \in Tokens(MaxTokenParts) \ {<<>>, <<EmptyString>>}
    /\ parsed = <<>>
    /\ pc = "parse"
    /\ data = EmptyMap
    /\ excludeAttrs = <<>>
    /\ todo = <<>>
    /\ listInfoMap = EmptyMap
    /\ status = EmptyMap
    /\ stack = <<>>
    /\ failure = "none"
    /\ written = {}

\* parseRule and classifyRule on the line that is the token alone.
ParseToken ==
    /\ pc = "parse"
    /\ parsed = <<>>
    /\ parsed' = <<parseRule(NewListInfo, Rule(token, <<>>))>>
    /\ UNCHANGED <<pc, data, excludeAttrs, todo, listInfoMap, status, stack, failure,
                   written, token>>

NextParse == ParseToken

SpecParse == InitParse /\ [][NextParse]_vars

-----------------------------------------------------------------------------
(* Notions the properties use *)

\* The file names of the registry once the walk has parsed every file.
Names == {ToUpperAtom(Paths[i]) : i \in 1..Len(Paths)}

\* The path of a file of the registry.
PathOf(name) == CHOOSE p \in {Paths[i] : i \in 1..Len(Paths)} : ToUpperAtom(p) = name

\* Every file of the directory was parsed without an error.
Walked == todo = <<>> /\ DOMAIN listInfoMap = Names

\* main went past the resolution.
ResolutionCompleted == pc \in {"proto", "plain", "done"}

\* The elements of a sequence.
Range(s) == {s[i] : i \in 1..Len(s)}

\* How often x occurs in s.
Count(x, s) == Cardinality({i \in 1..Len(s) : s[i] = x})

\* Every element of s occurs in t at least as often as in s.
ContainsAll(t, s) == \A x \in Range(s) : Count(x, t) >= Count(x, s)

\* The files the directives recorded for name pull rules from.
IncludedBy(name) ==
    IF name \in DOMAIN listInfoMap THEN Targets(listInfoMap[name]) ELSE {}

\* The files reached from a file in one to n steps along the edges.
RECURSIVE ReachedIn(_, _, _)
ReachedIn(edges, from, n) ==
    IF n = 0 THEN {}
    ELSE LET near == {e[2] : e \in {d \in edges : d[1] = from}}
         IN  near \cup UNION {ReachedIn(edges, m, n - 1) : m \in near}

\* The files name reaches through one or more recorded directives.
Reaches(name) ==
    ReachedIn({e \in Names \X Names : e[2] \in IncludedBy(e[1])},
              name, Cardinality(Names))

\* Some file includes itself, directly or through other files.
CyclicInclusion == \E name \in Names : name \in Reaches(name)

\* Some recorded directive names a file the registry does not hold.
MissingTarget == \E name \in Names : \E t \in IncludedBy(name) : t \notin Names

-----------------------------------------------------------------------------
(* Properties *)

UnfilteredDirective(name, target) ==
    \E i \in 1..Len(data[PathOf(name)]) :
        LET line == data[PathOf(name)][i]
        IN  /\ line.inc
            /\ Len(line.segs) = 1
            /\ ToUpperAtom(TrimSpaceAtom(line.segs[1])) = target

UnfilteredTargets(name) == {t \in Names : UnfilteredDirective(name, t)}

\* The collection the parser produced for a file.
Raw(name) == Marshal(PathOf(name), data[PathOf(name)]).l

\* The lists of l hold every rule of the lists of x.
HoldsRulesOf(l, x) ==
    /\ ContainsAll(l.FullTypeList, x.FullTypeList)
    /\ ContainsAll(l.DomainTypeList, x.DomainTypeList)
    /\ ContainsAll(l.KeywordTypeList, x.KeywordTypeList)
    /\ ContainsAll(l.RegexpTypeList, x.RegexpTypeList)
    /\ ContainsAll(l.AttributeRuleUniqueList, x.AttributeRuleUniqueList)

\* C3: once the resolution has completed, a file with an unfiltered
\* include:X holds every untagged and every tagged rule of the flattened X,
\* and with them the rules of every file X reaches through unfiltered
\* directives, in whatever order the files were flattened.
C3_UnfilteredIncludePullsAll ==
    ResolutionCompleted =>
        \A name \in Names :
            /\ \A x \in UnfilteredTargets(name) :
                    HoldsRulesOf(listInfoMap[name], listInfoMap[x])
            /\ \A y \in ReachedIn({e \in Names \X Names : UnfilteredDirective(e[1], e[2])},
                                    name, Cardinality(Names)) :
                    HoldsRulesOf(listInfoMap[name], Raw(y))

\* A includes B, B includes C, and C has rules of its own of two kinds.
C3_Witness ==
    /\ pc = "done"
    /\ UnfilteredDirective("A", "B")
    /\ ~UnfilteredDirective("A", "C")
    /\ UnfilteredDirective("B", "C")
    /\ Len(Raw("C").RegexpTypeList) = 1
    /\ Len(Raw("C").AttributeRuleUniqueList) = 1
    /\ Len(Raw("B").KeywordTypeList) = 1
    /\ Len(listInfoMap["A"].RegexpTypeList) = 1

\* Some file holds an include line that names a file the directory lacks.
DirectiveToMissingFile ==
    \E name \in Names : \E i \in 1..Len(data[PathOf(name)]) :
        LET line == data[PathOf(name)][i]
        IN  line.inc /\ ToUpperAtom(TrimSpaceAtom(line.segs[1])) \notin Names

\* C5: an include directive whose target is not in the registry is fatal:
\* the resolution does not complete as if the directive were not there.
C5_MissingTargetIsFatal ==
    Walked /\ DirectiveToMissingFile => ~ResolutionCompleted

\* C10: once an error of parsing or of resolution has occurred, main has
\* exited: no rule set is assembled and no artifact is written, for any
\* file.
C10_ErrorAbortsEverything ==
    failure # "none" =>
        /\ pc = "exit1"
        /\ written = {}
        /\ \A name \in DOMAIN listInfoMap : listInfoMap[name].GeoSite = <<>>

\* The second file does not parse after the first one did.
C10_Witness ==
    /\ failure = "invalid attribute"
    /\ pc = "exit1"
    /\ "A" \in DOMAIN listInfoMap
    /\ listInfoMap["A"].FullTypeList # <<>>

\* a is a strict dot-suffix of b: b is "<something>." followed by a.
StrictDotSuffix(a, b) ==
    /\ Len(a) < Len(b)
    /\ \A k \in 1..Len(a) : a[k] = b[Len(b) - Len(a) + k]

\* C1: in the deduplicated suffix list of a flattened file, own and
\* included rules together, no value is a strict dot-suffix of another.
C1_NoSuffixCoversAnother ==
    \A name \in DOMAIN listInfoMap :
        LET unique == listInfoMap[name].DomainTypeUniqueList
        IN  \A i, j \in 1..Len(unique) :
                ~StrictDotSuffix(unique[i].Value, unique[j].Value)

\* A flattened file with included rules, one of its candidates dropped, the
\* more specific a.b.com written before b.com.
C1_Witness ==
    /\ pc = "done"
    /\ Len(data["a"]) = 2
    /\ data["a"][1] = Rule(<<<<"a", "b", "com">>>>, <<>>)
    /\ data["a"][2] = Inc(<<"b">>)
    /\ Len(listInfoMap["A"].DomainTypeList) = 3
    /\ Len(listInfoMap["A"].DomainTypeUniqueList) = 2

\* The tags of the filter of an include line: the non-empty segments after
\* the first, trimmed and lower-cased.
FilterOf(line) ==
    {ToLowerAtom(TrimSpaceAtom(line.segs[i])) : i \in 2..Len(line.segs)} \ {""}

\* The include lines of a file.
Directives(name) ==
    {data[PathOf(name)][i] : i \in {j \in 1..Len(data[PathOf(name)]) : data[PathOf(name)][j].inc}}

TargetOf(line) == ToUpperAtom(TrimSpaceAtom(line.segs[1]))

\* The tagged rules a directive is to pull from its flattened target: all
\* of them without a filter, those with every tag of the filter otherwise.
ToPull(line) ==
    {r \in Range(listInfoMap[TargetOf(line)].AttributeRuleUniqueList) :
        FilterOf(line) \subseteq Range(r.Attribute)}

\* C4: a directive with a filter of one or more tags pulls exactly the
\* tagged rules of its target that carry every tag of the filter: a file
\* all of whose directives are filtered holds, after flattening, its own
\* tagged rules and those rules, and no untagged rule but its own.
C4_FilterPullsExactlySupersets ==
    ResolutionCompleted =>
        \A name \in Names :
            (Directives(name) # {} /\ \A line \in Directives(name) : FilterOf(line) # {}) =>
                /\ Range(listInfoMap[name].AttributeRuleUniqueList) =
                        Range(Raw(name).AttributeRuleUniqueList)
                            \cup UNION {ToPull(line) : line \in Directives(name)}
                /\ Range(listInfoMap[name].FullTypeList) = Range(Raw(name).FullTypeList)
                /\ Range(listInfoMap[name].DomainTypeList) = Range(Raw(name).DomainTypeList)
                /\ Range(listInfoMap[name].KeywordTypeList) = Range(Raw(name).KeywordTypeList)
                /\ Range(listInfoMap[name].RegexpTypeList) = Range(Raw(name).RegexpTypeList)

\* The exclusion set of a file, empty when the flag does not name it.
ExclusionSet(name) ==
    IF name \in DOMAIN ExcludeAttrsInFile(excludeAttrs)
    THEN ExcludeAttrsInFile(excludeAttrs)[name] ELSE {}

\* The compiled rule set of a file.
Compiled(name) == listInfoMap[name].GeoSite[1].Domain

\* main has assembled the rule sets.
Assembled == pc \in {"plain", "done"}

\* r carries a tag of E.
Excluded(r, E) == Range(r.Attribute) \cap E # {}

\* The rules of s that carry no tag of E, in the order of s.
RECURSIVE Surviving(_, _)
Surviving(s, E) ==
    IF s = <<>> THEN <<>>
    ELSE IF Excluded(Head(s), E) THEN Surviving(Tail(s), E)
    ELSE <<Head(s)>> \o Surviving(Tail(s), E)

\* C6: the compiled rule set of a file is what it is with no exclusion
\* configured, less the tagged rules that carry a tag of the file's
\* exclusion set: untagged rules and rules with other tags stay, and the
\* exclusion set of one file changes nothing for another.
C6_ExclusionDropsOnlyExcludedTags ==
    Assembled =>
        \A name \in Names :
            /\ Compiled(name) =
                    Surviving(GeoSiteDomains(listInfoMap[name], EmptyMap), ExclusionSet(name))
            /\ \A i \in 1..Len(Compiled(name)) :
                    ~Excluded(Compiled(name)[i], ExclusionSet(name))
            /\ ContainsAll(Compiled(name), listInfoMap[name].FullTypeList)
            /\ ContainsAll(Compiled(name), listInfoMap[name].DomainTypeUniqueList)

\* File A, with the exclusion set {cn}, loses an included rule tagged cn
\* and keeps a rule tagged ads; file B, with no set, keeps the rule tagged
\* cn.
C6_Witness ==
    /\ pc = "done"
    /\ ExclusionSet("A") = {"cn"}
    /\ "B" \notin DOMAIN ExcludeAttrsInFile(excludeAttrs)
    /\ \E r \in Range(listInfoMap["A"].AttributeRuleUniqueList) :
            /\ r.Attribute = <<"cn">>
            /\ r \in Range(Compiled("B"))
            /\ r \notin Range(Compiled("A"))
    /\ \E r \in Range(Compiled("A")) : r.Attribute = <<"ads">>
    /\ \E r \in Range(Compiled("A")) : r.Attribute = <<>>

\* The rules of type t in s, in the order of s.
RECURSIVE OfType(_, _)
OfType(s, t) ==
    IF s = <<>> THEN <<>>
    ELSE IF Head(s).Type = t THEN <<Head(s)>> \o OfType(Tail(s), t)
    ELSE OfType(Tail(s), t)

\* C7: the compiled rule set is the untagged Full rules, the tagged Full
\* rules that survive the exclusion, the deduplicated untagged Suffix rules
\* and the tagged Suffix rules that survive, in this order; no Suffix rule
\* precedes a Full rule.
C7_CompiledOrder ==
    Assembled =>
        \A name \in Names :
            LET l == listInfoMap[name]
                tagged == Surviving(l.AttributeRuleUniqueList, ExclusionSet(name))
            IN  /\ Compiled(name) =
                        l.FullTypeList \o OfType(tagged, Domain_Full)
                            \o l.DomainTypeUniqueList \o OfType(tagged, Domain_RootDomain)
                /\ \A i, j \in 1..Len(Compiled(name)) :
                        (Compiled(name)[i].Type = Domain_RootDomain
                            /\ Compiled(name)[j].Type = Domain_Full) => j < i

\* A rule set with a rule of each of the four groups, a fifth rule
\* excluded and an untagged Suffix rule dropped by the trie.
C7_Witness ==
    /\ pc = "done"
    /\ ExclusionSet("A") = {"ads"}
    /\ Len(listInfoMap["A"].AttributeRuleUniqueList) = 3
    /\ Len(listInfoMap["A"].DomainTypeList) = 2
    /\ Len(Compiled("A")) = 4
    /\ Compiled("A")[1] = Domain(Domain_Full, <<"e", "com">>, <<>>)
    /\ Compiled("A")[2] = Domain(Domain_Full, <<"f", "com">>, <<"cn">>)
    /\ Compiled("A")[3] = Domain(Domain_RootDomain, <<"b", "com">>, <<>>)
    /\ Compiled("A")[4] = Domain(Domain_RootDomain, <<"x", "d", "com">>, <<"cn">>)

\* C8: every untagged Keyword rule and every untagged Regex rule of the
\* flattened collection of a file is in the file's compiled rule set.
C8_KeywordAndRegexCompiled ==
    Assembled =>
        \A name \in Names :
            /\ ContainsAll(Compiled(name), listInfoMap[name].KeywordTypeList)
            /\ ContainsAll(Compiled(name), listInfoMap[name].RegexpTypeList)

\* The kind a type prefix stands for, "" for any other prefix.
KindOfPrefix(prefix) ==
    CASE ToLower(prefix) = <<"full">> -> Domain_Full
      [] ToLower(prefix) = <<"domain">> -> Domain_RootDomain
      [] ToLower(prefix) = <<"keyword">> -> Domain_Plain
      [] ToLower(prefix) = <<"regexp">> -> Domain_Regex
      [] OTHER -> ""

\* The rules a collection holds.
RulesOf(l) ==
    Range(l.FullTypeList) \cup Range(l.DomainTypeList) \cup Range(l.KeywordTypeList)
        \cup Range(l.RegexpTypeList) \cup Range(l.AttributeRuleUniqueList)

\* C9: a token is split at its first ':' only.  Without a ':' it is a
\* Suffix rule; with one, the prefix decides the kind and everything after
\* the first ':' is the value (lower-cased unless the kind is Regex), a ':'
\* in it included; any other prefix is an error.
C9_SplitAtFirstColon ==
    parsed # <<>> =>
        LET r == parsed[1]
            rest == Tail(token)
            kind == IF Len(token) = 1 THEN Domain_RootDomain ELSE KindOfPrefix(token[1])
            value == IF Len(token) = 1 THEN <<ToLower(token[1])>>
                     ELSE IF kind = Domain_Regex THEN rest
                     ELSE [i \in 1..Len(rest) |-> ToLower(rest[i])]
        IN  IF kind = "" THEN r.err # "" /\ RulesOf(r.l) = {}
            ELSE /\ r.err = ""
                 /\ \E rule \in RulesOf(r.l) :
                        /\ RulesOf(r.l) = {rule}
                        /\ rule.Type = kind
                        /\ <<rule.Value>> = value

-----------------------------------------------------------------------------
(* Properties of the flattened collections *)

\* The raw fields of l are the ones the parser produced for the file.
RawFieldsKept(l, raw) ==
    /\ l.FullTypeList = raw.FullTypeList
    /\ l.DomainTypeList = raw.DomainTypeList
    /\ l.KeywordTypeList = raw.KeywordTypeList
    /\ l.RegexpTypeList = raw.RegexpTypeList
    /\ l.AttributeRuleListMap = raw.AttributeRuleListMap

\* C11: after the resolution the raw untagged Full, Suffix, Keyword and
\* Regex lists and the raw tagged-rule groups of every file are exactly what
\* the parser produced for the file; flattening wrote nothing into them.
C11_RawCollectionNeverMutated ==
    ResolutionCompleted =>
        \A name \in Names : RawFieldsKept(listInfoMap[name], Raw(name))

\* The rules of s of one type, tagged or untagged, in the order of s.
RECURSIVE GroupOf(_, _, _)
GroupOf(s, type, tagged) ==
    IF s = <<>> THEN <<>>
    ELSE IF Head(s).Type = type /\ (Head(s).Attribute # <<>>) = tagged
    THEN <<Head(s)>> \o GroupOf(Tail(s), type, tagged)
    ELSE GroupOf(Tail(s), type, tagged)

\* The place x is first met at in s.
FirstIndex(x, s) == CHOOSE i \in 1..Len(s) : s[i] = x /\ \A j \in 1..(i - 1) : s[j] # x

\* Two rules of out that were first seen in the order r, s are in this
\* order in out.
KeepsOrder(seen, out) ==
    \A r, s \in Range(seen) \cap Range(out) :
        FirstIndex(r, seen) < FirstIndex(s, seen) => FirstIndex(r, out) < FirstIndex(s, out)

\* The rules the lines of a file declare, every group in the order of the
\* lines.
Declared(name) ==
    Raw(name).FullTypeList \o Raw(name).DomainTypeList \o Raw(name).AttributeRuleUniqueList

\* The rules a file hands to a file that includes it without a filter,
\* every group in the order they are appended in.
Handed(x) ==
    listInfoMap[x].FullTypeList \o listInfoMap[x].DomainTypeList
        \o listInfoMap[x].AttributeRuleUniqueList

\* One group of the compiled rule set of a file is in first-seen order: the
\* file's own rules in the order of their lines, the rules merged from an
\* included file in the order they were merged in, and a rule of the file's
\* own before a rule that only an include brought.
GroupInFirstSeenOrder(name, type, tagged) ==
    LET out == GroupOf(Compiled(name), type, tagged)
        own == GroupOf(Declared(name), type, tagged)
    IN  /\ KeepsOrder(own, out)
        /\ \A x \in UnfilteredTargets(name) \ {name} :
                KeepsOrder(GroupOf(Handed(x), type, tagged), out)
        /\ \A r \in Range(own) \cap Range(out) : \A s \in Range(out) \ Range(own) :
                FirstIndex(r, out) < FirstIndex(s, out)

\* C12: in the compiled rule set of a file each of the four groups,
\* untagged Full, tagged Full, deduplicated untagged Suffix and tagged
\* Suffix, has its surviving rules in first-seen order.
C12_GroupsInFirstSeenOrder ==
    Assembled =>
        \A name \in Names : \A type \in {Domain_Full, Domain_RootDomain} :
            \A tagged \in BOOLEAN : GroupInFirstSeenOrder(name, type, tagged)

\* The same of the three groups the trie does not touch.
OtherGroupsInFirstSeenOrder ==
    Assembled =>
        \A name \in Names :
            /\ GroupInFirstSeenOrder(name, Domain_Full, FALSE)
            /\ GroupInFirstSeenOrder(name, Domain_Full, TRUE)
            /\ GroupInFirstSeenOrder(name, Domain_RootDomain, TRUE)

\* Two rules with the same value and the same set of tags.
SameEntry(r, s) == r.Value = s.Value /\ Range(r.Attribute) = Range(s.Attribute)

\* C13: after the resolution the tagged-rule list of every file holds no
\* two entries with the same value and the same tag set, whatever the
\* include directives are.
C13_NoDuplicateTaggedEntries ==
    ResolutionCompleted =>
        \A name \in Names :
            LET list == listInfoMap[name].AttributeRuleUniqueList
            IN  \A i, j \in 1..Len(list) : i # j => ~SameEntry(list[i], list[j])

\* The files the resolver has flattened.
Flattened == {name \in DOMAIN listInfoMap : status[name] = "Resolved"}

\* The value v is covered by list: list holds v or a dot-suffix of v.
Covered(v, list) == \E i \in 1..Len(list) : IsDotSuffix(list[i].Value, v)

\* C14: the candidate list of a flattened file holds the file's own
\* untagged Suffix rules and those of the files it includes without a
\* filter, and every candidate is in the deduplicated list or has a
\* dot-suffix of its value there; the deduplicated list holds candidates
\* only.
C14_DeduplicationLosesNoCoverage ==
    \A name \in Flattened :
        LET l == listInfoMap[name]
        IN  /\ ContainsAll(l.DomainTypeList, Raw(name).DomainTypeList)
            /\ \A x \in UnfilteredTargets(name) \cap Flattened :
                    ContainsAll(l.DomainTypeList, listInfoMap[x].DomainTypeList)
            /\ \A i \in 1..Len(l.DomainTypeList) :
                    Covered(l.DomainTypeList[i].Value, l.DomainTypeUniqueList)
            /\ Range(l.DomainTypeUniqueList) \subseteq Range(l.DomainTypeList)

\* File A keeps b.com of its own and drops two included candidates: b.com
\* again, and x.a.b.com, which b.com covers.
C14_Witness ==
    /\ pc = "done"
    /\ UnfilteredDirective("A", "B")
    /\ Raw("A").DomainTypeList = <<Domain(Domain_RootDomain, <<"b", "com">>, <<>>)>>
    /\ Count(Domain(Domain_RootDomain, <<"b", "com">>, <<>>), listInfoMap["A"].DomainTypeList) = 2
    /\ Domain(Domain_RootDomain, <<"x", "a", "b", "com">>, <<>>)
            \in Range(listInfoMap["A"].DomainTypeList)
    /\ listInfoMap["A"].DomainTypeUniqueList = Raw("A").DomainTypeList

====
